---- MODULE Spec2Model ----
(***************************************************************************)
(* The store-backed chat server (server.js and database.js, both kept in   *)
(* src/unnamed/part_002): the five tables of the SQLite store, and the     *)
(* request handlers POST /api/chat, /api/upload and /api/clear as          *)
(* processes that interleave at their await points.  Every action below is *)
(* one database statement, one network call or one model call together     *)
(* with the synchronous code that follows it up to the next await.         *)
(*                                                                         *)
(* Text is abstract: a content is a tuple of strings naming the template   *)
(* the code fills in and the values it fills it with.  Of the timestamp    *)
(* columns only chat_messages.timestamp is kept, the one the handlers      *)
(* order by; a users row is its session id.  A handler's                   *)
(* locals end with its answer: a request that has answered keeps what it   *)
(* answered, the file of an upload, and the record of what it wrote.       *)
(***************************************************************************)
EXTENDS Integers, Sequences, FiniteSets, TLC

\* ------------------------------------------------------------- bounds
\* Seconds the clock advances in one run of the server, statements and model
\* calls that fail in one run, and exchanges a store kept from an earlier
\* run holds for session "s1".
MaxClock == 1
MaxFaults == 1
MaxStored == 6
\* The sends and the uploads of the page in one run.
MaxSends == 2
MaxUploads == 2
\* The clears the page asks for in one run.
MaxClears == 1
\* The requests the in-memory revision of the server receives in one run,
\* and the lines the command-line chatbot reads in one run.
MaxMemoryRequests == 3
MaxInputs == 3

\* --------------------------------------------------- program constants
\* database.getConversationHistory(sessionId, 10)
HistoryLimit == 10

\* ------------------------------------------------------------ inputs
None == "none"
Sessions == {"s1", "s2"}
Messages == {"m1"}
FileUrls == {"/uploads/f.png", "/uploads/f.txt", "/uploads/f.pdf"}
\* The requests of one run: two, so that any two handlers interleave.
Reqs == {1, 2}
Reply == "reply"

VARIABLES users, chat_messages, conversations, file_uploads,
          generated_images, now, up, faults, req, client, mem, cli

vars == <<users, chat_messages, conversations, file_uploads,
          generated_images, now, up, faults, req, client, mem, cli>>

\* ----------------------------------------------------------- helpers
Min2(a, b) == IF a <= b THEN a ELSE b

\* The rows of a table that belong to one session, in insertion order.
RowsOf(table, s) == SelectSeq(table, LAMBDA row : row.session_id = s)

\* uuidv4(): a session id no client has used.
UuidV4(r) == "uuid-" \o ToString(r)

\* ------------------------------------------------------------- store
\* An INSERT INTO users that adds no row.
InsertNoUser(table, s) == table

\* INSERT INTO users (session_id) VALUES (?)
InsertUser(table, s) == Append(table, [session_id |-> s])

\* SELECT * FROM users WHERE session_id = ? gives a row.
HasUser(table, s) == \E i \in DOMAIN table : table[i].session_id = s

\* users without the UNIQUE constraint of session_id.
InsertUserNeverRefused(table, s) == FALSE

\* session_id TEXT UNIQUE NOT NULL: the INSERT of a session id the table
\* holds fails.
InsertUserRefused(table, s) == HasUser(table, s)

\* INSERT INTO chat_messages (session_id, role, content) VALUES (?, ?, ?)
InsertChatMessage(table, s, role, content, t) ==
    Append(table, [session_id |-> s, role |-> role, content |-> content,
                   timestamp |-> t])

\* INSERT INTO conversations (session_id, message, response) VALUES (?, ?, ?)
InsertConversation(table, s, message, response) ==
    Append(table, [session_id |-> s, message |-> message, response |-> response])

\* INSERT INTO generated_images (session_id, prompt, image_path) VALUES (?, ?, ?)
InsertGeneratedImage(table, s, prompt, path) ==
    Append(table, [session_id |-> s, prompt |-> prompt, image_path |-> path])

\* INSERT INTO file_uploads (session_id, filename, ..., mime_type) VALUES (...)
InsertFileUpload(table, s, file) ==
    Append(table, [session_id |-> s, original_name |-> file.name,
                   file_size |-> file.size, mime_type |-> file.mimetype])

\* DELETE FROM <table>, without its WHERE clause.
DeleteAll(table, s) == <<>>

\* DELETE FROM <table> WHERE session_id = ?
DeleteWhere(table, s) == SelectSeq(table, LAMBDA row : row.session_id # s)

\* ORDER BY timestamp ASC: every listing of the rows at the positions I of
\* the table in non-decreasing timestamp order.  SQL leaves the order of
\* rows with equal timestamps (CURRENT_TIMESTAMP counts whole seconds) open.
RECURSIVE OrderByTimestamp(_, _)
OrderByTimestamp(table, I) ==
    IF I = {} THEN {<<>>}
    ELSE LET lo == CHOOSE i \in I : \A j \in I :
                       table[i].timestamp <= table[j].timestamp
             firsts == {i \in I : table[i].timestamp = table[lo].timestamp}
         IN UNION {{<<table[i]>> \o rest :
                        rest \in OrderByTimestamp(table, I \ {i})} :
                   i \in firsts}

\* The query without its WHERE clause.
HistoryOfAllSessions(table, s, limit) ==
    {SubSeq(o, 1, Min2(limit, Len(o))) : o \in OrderByTimestamp(table, DOMAIN table)}

\* SELECT role, content, timestamp FROM chat_messages WHERE session_id = ?
\* ORDER BY timestamp ASC LIMIT ?  -- the results the query may give.  The
\* rows keep all their columns here; the handlers read role and content.
GetConversationHistory(table, s, limit) ==
    {SubSeq(o, 1, Min2(limit, Len(o))) :
        o \in OrderByTimestamp(table,
                  {i \in DOMAIN table : table[i].session_id = s})}

\* ----------------------------------------------------- prompt builder
Part(kind, content) == [kind |-> kind, content |-> content]

\* "You are a helpful AI assistant. ...\n\n"
Preamble == Part("Preamble", <<>>)

\* The trailing "Assistant:" that asks the model for its turn.
Cue == Part("Cue", <<>>)

\* conversationHistory.forEach: one "User: ..." or "Assistant: ..." line a row.
RenderHistory(history) ==
    [i \in 1..Len(history) |->
        Part(IF history[i].role = "user" THEN "User" ELSE "Assistant",
             history[i].content)]

\* prompt += `User: ${message}\nAssistant:`
UserTurn(message) == <<Part("User", <<message>>), Cue>>

\* prompt += `User uploaded a file with content:\n...\n\nUser: ${message}\nAssistant:`
FileTurn(fileUrl, message) ==
    <<Part("File", <<fileUrl>>), Part("User", <<message>>), Cue>>

\* prompt += `User: ${message} (Note: Could not analyze uploaded file ...)\nAssistant:`
NoteTurn(message) ==
    <<Part("User", <<message, "(Note: Could not analyze uploaded file)">>), Cue>>

\* [`Analyze this image and answer: ${message}`, {inlineData: ...}]
VisionPrompt(message, fileUrl) ==
    <<Part("Analyze", <<message>>), Part("InlineData", <<fileUrl>>)>>

\* The description-fallback prompt: "Create a detailed, vivid description ..."
DescriptionPrompt(message) == <<Part("Describe", <<message>>)>>

\* mime.lookup(filePath): by the extension of the path.
MimeLookup(fileUrl) ==
    CASE fileUrl = "/uploads/f.png" -> "image/png"
      [] fileUrl = "/uploads/f.txt" -> "text/plain"
      [] fileUrl = "/uploads/f.json" -> "application/json"
      [] fileUrl = "/uploads/f.pdf" -> "application/pdf"
      [] OTHER -> "false"

\* mimeType && mimeType.startsWith('image/')
IsImage(mimeType) == mimeType \in {"image/png", "image/jpeg", "image/gif"}

\* mimeType === 'text/plain' || mimeType === 'application/json'
IsText(mimeType) == mimeType \in {"text/plain", "application/json"}

\* The branch the file analysis of POST /api/chat takes, and the text it
\* adds to the prompt; readable says whether fs.readFileSync succeeds.
\* "vision" hands the image to the model; every other branch goes on to the
\* text call with the prompt extended by the text given.
FileBranch(fileUrl, readable) ==
    IF fileUrl = None THEN "plain"
    ELSE IF IsImage(MimeLookup(fileUrl)) THEN (IF readable THEN "vision" ELSE "note")
    ELSE IF IsText(MimeLookup(fileUrl)) THEN (IF readable THEN "file" ELSE "note")
    ELSE "other"

PromptTail(branch, fileUrl, message) ==
    CASE branch = "plain" -> UserTurn(message)
      [] branch = "file" -> FileTurn(fileUrl, message)
      [] branch = "note" -> NoteTurn(message)
      [] OTHER -> <<>>

\* ------------------------------------------------------- image chain
PollinationsUrl == "https://image.pollinations.ai/prompt"
PicsumUrl == "https://picsum.photos/512/512"
DataUrl == "data:image/svg+xml;base64"
LocalPath == "/generated-images/generated.png"

\* generateLocalPlaceholderImage(prompt)
GenerateLocalPlaceholderImage == DataUrl

\* The try block of method 2 builds a string and returns it: nothing in it
\* can throw.
PicsumThrows == FALSE

\* generateImageWithHuggingFace(prompt), given what axios.head ended with:
\* status 200, or an error (no answer, a timeout, a status outside 2xx).
GenerateImageWithHuggingFace(head) ==
    IF head = "200" THEN PollinationsUrl
    ELSE IF ~PicsumThrows THEN PicsumUrl
    ELSE GenerateLocalPlaceholderImage

\* What materializing the image may end with: the file written, or an
\* error thrown by axios.get or by the write.  From a source that does not
\* answer axios.get throws; picsum says whether picsum.photos answers while
\* the request is handled.
DownloadOutcomes(url, picsum) ==
    IF url = PicsumUrl /\ picsum = "down" THEN {"error"} ELSE {"ok", "error"}

\* downloadAndSaveImage returns the path, or null from its catch.
DownloadAndSaveImageResult(outcome) == IF outcome = "ok" THEN LocalPath ELSE None

\* ---------------------------------------------------------- requests
NoFile == [name |-> None, mimetype |-> None, size |-> 0]

IdleReq ==
    [kind |-> "idle", pc |-> "idle", sessionId |-> None, message |-> None,
     fileUrl |-> None, generateImage |-> FALSE, file |-> NoFile,
     history |-> <<>>, prompt |-> <<>>, asked |-> <<>>, botResponse |-> <<>>,
     path |-> None, k |-> 0, head |-> None, picsum |-> None,
     imageUrl |-> None, imagePath |-> None, status |-> 0, respKind |-> None, respImage |-> None,
     details |-> None, deletedRows |-> 0, writes |-> <<>>,
     messageCount |-> 0, fileCount |-> 0, changes |-> 0]

\* res.status(status).json(...): the handler's answer.
Respond(rec, status, kind) ==
    [IdleReq EXCEPT !.pc = "done", !.kind = rec.kind, !.sessionId = rec.sessionId,
                    !.generateImage = rec.generateImage, !.file = rec.file,
                    !.details = rec.details, !.deletedRows = rec.deletedRows,
                    !.writes = rec.writes, !.status = status, !.respKind = kind]

\* The writes of a path without the turn.
PersistStepsWithoutTurn(path) ==
    IF path = "image" THEN <<"image", "user", "assistant">>
    ELSE <<"user", "assistant">>

\* The writes of a path with the assistant row first.
PersistStepsAssistantFirst(path) ==
    IF path = "image" THEN <<"image", "assistant", "user", "turn">>
    ELSE <<"assistant", "user", "turn">>

\* The writes each path of POST /api/chat awaits one after the other, in
\* the order of the code: "plain" (the text reply), "vision" (the image
\* analysis), "image" (handleImageGeneration) and "fallback"
\* (handleImageDescriptionFallback).
PersistSteps(path) ==
    IF path = "image" THEN <<"image", "user", "assistant", "turn">>
    ELSE <<"user", "assistant", "turn">>

\* The write a request is waiting for.
CurrentWrite(rec) ==
    IF rec.pc = "persist" THEN PersistSteps(rec.path)[rec.k] ELSE None

\* The content of the user row each path saves.
UserContent(rec) ==
    CASE rec.path = "plain" -> <<rec.message>>
      [] rec.path = "vision" -> <<rec.message, "[Image:", rec.fileUrl>>
      [] OTHER -> <<"[Image Generation]", rec.message>>

\* The content of the assistant row each path saves.
AssistantContent(rec) ==
    CASE rec.path = "image" -> <<"Generated image:", rec.message>>
      [] rec.path = "fallback" ->
            <<"Image Generation (Description Mode)", rec.message>> \o rec.botResponse
      [] OTHER -> rec.botResponse

\* Starting the writes of a path.  Locals the code does not read again are
\* dropped: it reads the text prompt and the file reference again only on
\* the path of the image analysis, whose catch extends the prompt.
StartPersist(rec, path) ==
    [rec EXCEPT !.pc = "persist", !.path = path, !.k = 1, !.history = <<>>,
                !.asked = <<>>, !.head = None, !.picsum = None, !.imageUrl = None,
                !.prompt = IF path = "vision" THEN @ ELSE <<>>,
                !.fileUrl = IF path = "vision" THEN @ ELSE None]

\* The answer of a path whose writes are all done.
Answer(rec) ==
    CASE rec.path = "image" ->
            [Respond(rec, 200, "image") EXCEPT !.respImage = rec.imagePath]
      [] rec.path = "fallback" -> Respond(rec, 200, "description")
      [] OTHER -> Respond(rec, 200, "chat")

\* A write of the path succeeded: on to the next one, or to the answer.
AfterWrite(rec) ==
    LET done == [rec EXCEPT !.writes = Append(@, CurrentWrite(rec))]
    IN IF rec.k < Len(PersistSteps(rec.path))
       THEN [done EXCEPT !.k = @ + 1]
       ELSE Answer(done)

\* The text call of POST /api/chat: model.generateContent(prompt) is issued.
CallModel(rec, prompt) ==
    [rec EXCEPT !.pc = "generate", !.path = "plain", !.prompt = prompt,
                !.asked = prompt]

\* handleImageDescriptionFallback: its model call is issued.
CallDescription(rec) ==
    [rec EXCEPT !.pc = "describe", !.path = "fallback",
                !.asked = DescriptionPrompt(rec.message)]

\* A catch that answers with the reply as if nothing had failed.
OnErrorAnswersReply(rec, err) == Respond(rec, 200, "chat")

\* An awaited statement or model call of a path threw err, the store's error
\* or the model's: the catch that takes it.  The catches that answer put
\* error.message into the details of the answer.
OnError(rec, err) ==
    LET f == [rec EXCEPT !.details = err]
    IN CASE rec.path = "vision" -> CallModel(rec, rec.prompt \o NoteTurn(rec.message))
         [] rec.path = "image" -> CallDescription(rec)
         [] rec.path = "fallback" -> Respond(f, 500, "imageError")
         [] OTHER -> Respond(f, 500, "error")

\* After createOrGetUser resolved.
AfterUser(rec) ==
    IF rec.kind = "upload" THEN [rec EXCEPT !.pc = "saveFile"]
    ELSE IF rec.generateImage THEN [rec EXCEPT !.pc = "head", !.path = "image"]
    ELSE [rec EXCEPT !.pc = "history", !.path = "plain"]

\* getConversationHistory(sessionId, 1000): the limit of the export.
ExportLimit == 1000

\* SELECT * FROM file_uploads WHERE session_id = ? ORDER BY upload_timestamp
\* DESC: the rows of the session, the last one stored first (rows are stored
\* in the order of their timestamps).
GetSessionFiles(table, s) ==
    LET rows == RowsOf(table, s)
    IN [i \in 1..Len(rows) |-> rows[Len(rows) + 1 - i]]

\* exportData, the answer of GET /api/export/:sessionId: conversations is
\* the history read, messageCount and fileCount are the lengths of the lists.
ExportData(rec, files) ==
    [Respond(rec, 200, "export") EXCEPT !.history = rec.history,
                                        !.messageCount = Len(rec.history),
                                        !.fileCount = Len(files)]

\* ------------------------------------------------------------ upload
\* limits.fileSize, in megabytes.
FileSizeLimit == 10

UploadFiles ==
    {[name |-> "a.png", mimetype |-> "image/png", size |-> 1],
     [name |-> "a.png", mimetype |-> "image/png", size |-> 11],
     [name |-> "a.txt", mimetype |-> "text/plain", size |-> 1]}

\* path.extname(file.originalname).toLowerCase()
ExtName(name) == IF name = "a.png" THEN ".png" ELSE ".txt"

\* allowedTypes.test(str) for /jpeg|jpg|png|gif|webp|txt|pdf|doc|docx|json|csv/:
\* the strings of the model that contain one of the alternatives.
AllowedTypes(str) == str \in {".png", ".txt", "image/png"}

\* fileFilter: mimetype && extname
FileFilter(file) == AllowedTypes(file.mimetype) /\ AllowedTypes(ExtName(file.name))

\* multer without limits.
MulterRefusesByTypeOnly(file) == ~FileFilter(file)

\* upload.single('file') ends with an error: the filter refused the file or
\* the file is over limits.fileSize.
MulterRefuses(file) == ~FileFilter(file) \/ file.size > FileSizeLimit

\* ------------------------------------------------------------ client
\* handleFileUpload of the client: file.size > 10 * 1024 * 1024, in megabytes.
ClientFileSizeLimit == 10

\* handleFileUpload goes on to fetch('/api/upload') with the file.
HandleFileUploadSends(file) == ~(file.size > ClientFileSizeLimit)

\* generateSessionId(): the ids the page draws.
ClientSessions == {"c1", "c2"}

\* The state of the page after the constructor: the fields of ChatBot the
\* requests depend on, and the requests it has sent (sends, uploads) with
\* what became of each ("sent" while the fetch is awaited); clears counts
\* the clears asked for and clearing those still awaited.  chatSessions
\* gives the cached messages of each session id, an exchange named by the
\* number of its send; a session without an entry has none.
InitClient ==
    [currentSessionId |-> "c1", uploadedFiles |-> <<>>,
     imageGenerationMode |-> FALSE, sends |-> <<>>, uploads |-> <<>>,
     clears |-> 0, clearing |-> 0,
     chatSessions |-> [s \in ClientSessions |-> <<>>]]

\* saveChatSession(userMessage, botResponse): the exchange of send i is
\* pushed onto the entry of this.currentSessionId, made if there is none.
SaveChatSession(c, i) ==
    [c.chatSessions EXCEPT ![c.currentSessionId] = Append(@, i)]

\* data.file.url of the i-th upload: multer gives every file a name of its own.
UploadUrl(i) == "/uploads/" \o ToString(i)

\* requestBody of sendMessage.
RequestBody(c) ==
    [sessionId |-> c.currentSessionId,
     fileUrl |-> IF Len(c.uploadedFiles) > 0
                     THEN c.uploadedFiles[Len(c.uploadedFiles)] ELSE None,
     generateImage |-> c.imageGenerationMode]

\* uploadedFiles.splice(index, 1), index counted from 1.
Splice(list, index) ==
    [i \in 1..(Len(list) - 1) |-> IF i < index THEN list[i] ELSE list[i + 1]]

\* ----------------------------------------- in-memory server revision
\* The revision of server.js that keeps the histories in a Map: mem holds
\* the Map (conversations: the array of each session id, 0 for no entry),
\* the arrays made so far (an array is named by its place in arrays: a
\* handler keeps the array it got across its await, whatever becomes of the
\* Map entry) and the requests received.
\* "Keep only last 10 exchanges (20 messages)"
MemoryLimit == 20

\* const { message, sessionId = 'default' } = req.body
MemorySessions == {"default", "s1"}

\* The messages of the k-th exchange of a history kept from earlier requests.
OldExchange(k) ==
    <<[role |-> "user", content |-> <<"old", k>>],
      [role |-> "assistant", content |-> <<"old reply", k>>]>>

RECURSIVE OldHistory(_)
OldHistory(k) == IF k = 0 THEN <<>> ELSE OldHistory(k - 1) \o OldExchange(k)

\* The state of the revision after k exchanges of session 'default'.
InitMem(k) ==
    [conversations |-> [s \in MemorySessions |->
                           IF s = "default" /\ k > 0 THEN 1 ELSE 0],
     arrays |-> IF k > 0 THEN <<OldHistory(k)>> ELSE <<>>,
     reqs |-> <<>>]

\* conversationHistory.push(user), conversationHistory.push(assistant) of
\* the i-th request.
Exchange(message, i) ==
    <<[role |-> "user", content |-> <<message>>],
      [role |-> "assistant", content |-> <<Reply, i>>]>>

\* A truncation that keeps the head of the array.
KeepFirst(list, n) ==
    IF Len(list) > n THEN SubSeq(list, 1, n) ELSE list

\* if (length > 20) conversationHistory.splice(0, length - 20): splice
\* removes the first length - n entries.
KeepLast(list, n) ==
    IF Len(list) > n
        THEN [i \in 1..n |-> list[i + (Len(list) - n)]]
        ELSE list

\* ------------------------------------------------ command-line chatbot
\* The lines typed at the prompt of src/index.js.
Inputs == {"", "  ", "quit", " EXIT", "hello", "Bye"}

\* input.trim()
Trim(input) ==
    CASE input = "  " -> ""
      [] input = " EXIT" -> "EXIT"
      [] OTHER -> input

\* userInput.toLowerCase()
ToLowerCase(str) ==
    CASE str = "EXIT" -> "exit"
      [] str = "Bye" -> "bye"
      [] OTHER -> str

\* The chatbot after the constructor and start(): the first question is
\* asked.  calls counts the chat completions requested, inputs the lines read.
InitCli ==
    [pc |-> "question", conversationHistory |-> <<>>, input |-> None,
     calls |-> 0, inputs |-> 0]

\* ------------------------------------------------------------- state
\* A store kept from an earlier run of the server: n exchanges of session
\* "s1", each a user row, an assistant row and a turn, written one after
\* the other, a second apart, the last one a second before the server starts.
StoredTime(n, i) == i - 2 * n - 1

StoredMessages(n) ==
    [i \in 1..(2 * n) |->
        [session_id |-> "s1",
         role |-> IF i % 2 = 1 THEN "user" ELSE "assistant",
         content |-> IF i % 2 = 1 THEN <<"m1">> ELSE <<Reply>>,
         timestamp |-> StoredTime(n, i)]]

StoredConversations(n) ==
    [k \in 1..n |->
        [session_id |-> "s1", message |-> <<"m1">>, response |-> <<Reply>>]]

StoredUsers(n) == IF n = 0 THEN <<>> ELSE <<[session_id |-> "s1"]>>

InitStore(n) ==
    /\ users = StoredUsers(n)
    /\ chat_messages = StoredMessages(n)
    /\ conversations = StoredConversations(n)
    /\ file_uploads = <<>>
    /\ generated_images = <<>>
    /\ now = 0
    /\ up = TRUE
    /\ faults = 0
    /\ req = [r \in Reqs |-> IdleReq]
    /\ client = InitClient
    /\ cli = InitCli

\* The server started on a new database file.
Init == InitStore(0) /\ mem = InitMem(0)

\* The server started on the database file of an earlier run, with a short
\* history or a long one.
InitStored == (\E n \in {1, MaxStored} : InitStore(n)) /\ mem = InitMem(0)

\* The in-memory revision started, or with a session 'default' one exchange
\* short of its limit or at its limit.
InitMemory ==
    /\ InitStore(0)
    /\ \E k \in {0, (MemoryLimit \div 2) - 1, MemoryLimit \div 2} : mem = InitMem(k)

\* Requests are numbered in the order they arrive.
Arrives(r) ==
    /\ up
    /\ req[r].pc = "idle"
    /\ IF r = 1 THEN TRUE ELSE req[r - 1].pc # "idle"

At(r, pc) == up /\ req[r].pc = pc

Set(r, rec) == req' = [req EXCEPT ![r] = rec]

\* The session the handler works on: sessionId = uuidv4() by default.
SessionOf(r, sessionId) == IF sessionId = None THEN UuidV4(r) ELSE sessionId

\* ----------------------------------------------------------- actions
\* CURRENT_TIMESTAMP counts whole seconds and never runs backwards: a
\* statement reads the second of the statement before it or a later one.
CurrentTimestamp == IF now < MaxClock THEN {now, now + 1} ELSE {now}

\* A statement or a model call may fail while the run's faults last.
MayFail == faults < MaxFaults /\ faults' = faults + 1

\* The bodies of POST /api/chat the model sends: a message to either
\* session, a message to "s1" with each kind of file reference or with the
\* image flag, a message that names no session, and a body without a
\* message.
ChatBodies ==
    {[message |-> m, sessionId |-> s, fileUrl |-> None, generateImage |-> FALSE] :
        m \in Messages, s \in Sessions}
    \cup {[message |-> m, sessionId |-> "s1", fileUrl |-> f, generateImage |-> FALSE] :
        m \in Messages, f \in FileUrls}
    \cup {[message |-> m, sessionId |-> "s1", fileUrl |-> None, generateImage |-> TRUE] :
        m \in Messages}
    \cup {[message |-> m, sessionId |-> None, fileUrl |-> None, generateImage |-> FALSE] :
        m \in Messages}
    \cup {[message |-> None, sessionId |-> "s1", fileUrl |-> None, generateImage |-> FALSE]}

\* The bodies of POST /api/upload: each file for "s1", an accepted file
\* that names no session, and a body without a file.
UploadBodies ==
    {[file |-> f, sessionId |-> s] : f \in UploadFiles, s \in {"s1"}}
    \cup {[file |-> f, sessionId |-> None] :
            f \in {g \in UploadFiles : g.size = 1 /\ g.mimetype = "image/png"}}
    \cup {[file |-> NoFile, sessionId |-> "s1"]}

\* The bodies of POST /api/clear.
ClearBodies == {[sessionId |-> s] : s \in Sessions \cup {None}}

\* POST /api/chat up to its first await.
ReceiveChat(r) ==
    /\ Arrives(r)
    /\ \E body \in ChatBodies :
         LET rec == [req[r] EXCEPT !.kind = "chat", !.message = body.message,
                                   !.sessionId = SessionOf(r, body.sessionId),
                                   !.fileUrl = body.fileUrl,
                                   !.generateImage = body.generateImage]
         IN Set(r, IF body.message = None THEN Respond(rec, 400, "error")
                   ELSE [rec EXCEPT !.pc = "getUser"])
    /\ UNCHANGED <<users, chat_messages, conversations, file_uploads,
                   generated_images, now, up, faults>>
    /\ UNCHANGED <<client, mem, cli>>

\* POST /api/upload up to its first await, multer's checks included.
ReceiveUpload(r) ==
    /\ Arrives(r)
    /\ \E body \in UploadBodies :
         LET file == body.file
             rec == [req[r] EXCEPT !.kind = "upload", !.file = file,
                                   !.sessionId = SessionOf(r, body.sessionId)]
         IN Set(r, IF file # NoFile /\ MulterRefuses(file)
                        THEN Respond(rec, 500, "multerError")
                   ELSE IF file = NoFile THEN Respond(rec, 400, "error")
                   ELSE [rec EXCEPT !.pc = "getUser"])
    /\ UNCHANGED <<users, chat_messages, conversations, file_uploads,
                   generated_images, now, up, faults>>
    /\ UNCHANGED <<client, mem, cli>>

\* POST /api/clear without the test of its session id.
ReceiveClearUnchecked(r) ==
    /\ Arrives(r)
    /\ \E body \in ClearBodies :
         Set(r, [req[r] EXCEPT !.kind = "clear", !.sessionId = body.sessionId,
                               !.pc = "clear"])
    /\ UNCHANGED <<users, chat_messages, conversations, file_uploads,
                   generated_images, now, up, faults>>
    /\ UNCHANGED <<client, mem, cli>>

\* POST /api/clear up to its await.
ReceiveClear(r) ==
    /\ Arrives(r)
    /\ \E body \in ClearBodies :
         LET rec == [req[r] EXCEPT !.kind = "clear", !.sessionId = body.sessionId]
         IN Set(r, IF body.sessionId = None THEN Respond(rec, 400, "error")
                   ELSE [rec EXCEPT !.pc = "clear"])
    /\ UNCHANGED <<users, chat_messages, conversations, file_uploads,
                   generated_images, now, up, faults>>
    /\ UNCHANGED <<client, mem, cli>>

\* createOrGetUser: the SELECT and its callback.
CreateOrGetUserLookup(r) ==
    /\ At(r, "getUser")
    /\ LET rec == req[r]
           s == rec.sessionId
       IN \/ \* the SELECT failed
             /\ MayFail
             /\ Set(r, OnError(rec, "store"))
             /\ UNCHANGED <<users, now, up>>
          \/ \* a row: last_active is updated and the promise resolves
             /\ HasUser(users, s)
             /\ Set(r, AfterUser(rec))
             /\ UNCHANGED <<users, now, up, faults>>
          \/ \* a row, and the UPDATE, which has no callback, failed: the
             \* statement's error event has no listener and ends the process
             /\ HasUser(users, s)
             /\ MayFail
             /\ up' = FALSE
             /\ UNCHANGED <<users, now, req>>
          \/ \* no row: the INSERT is issued
             /\ ~HasUser(users, s)
             /\ Set(r, [rec EXCEPT !.pc = "insertUser"])
             /\ UNCHANGED <<users, now, up, faults>>
    /\ UNCHANGED <<chat_messages, conversations, file_uploads, generated_images>>
    /\ UNCHANGED <<client, mem, cli>>

\* createOrGetUser: the INSERT and its callback.  session_id is UNIQUE.
CreateOrGetUserInsert(r) ==
    /\ At(r, "insertUser")
    /\ LET rec == req[r]
           s == rec.sessionId
       IN \/ /\ ~InsertUserRefused(users, s)
             /\ users' = InsertUser(users, s)
             /\ Set(r, AfterUser(rec))
             /\ UNCHANGED <<now, faults>>
          \/ \* the row exists by now: the constraint fails the INSERT
             /\ InsertUserRefused(users, s)
             /\ Set(r, OnError(rec, "store"))
             /\ UNCHANGED <<users, now, faults>>
          \/ /\ ~InsertUserRefused(users, s)
             /\ MayFail
             /\ Set(r, OnError(rec, "store"))
             /\ UNCHANGED <<users, now>>
    /\ UNCHANGED <<chat_messages, conversations, file_uploads,
                   generated_images, up>>
    /\ UNCHANGED <<client, mem, cli>>

\* POST /api/chat from the history query to the model call it issues.
LoadHistory(r) ==
    /\ At(r, "history")
    /\ LET rec == req[r]
       IN \/ /\ MayFail
             /\ Set(r, OnError(rec, "store"))
          \/ /\ \E h \in GetConversationHistory(chat_messages, rec.sessionId, HistoryLimit),
                   readable \in BOOLEAN :
                  LET branch == FileBranch(rec.fileUrl, readable)
                      base == <<Preamble>> \o RenderHistory(h)
                      got == [rec EXCEPT !.history = h]
                  IN Set(r, IF branch = "vision"
                            THEN [got EXCEPT !.pc = "vision", !.path = "vision",
                                             !.prompt = base,
                                             !.asked = VisionPrompt(rec.message, rec.fileUrl)]
                            ELSE CallModel(got, base \o PromptTail(branch, rec.fileUrl, rec.message)))
             /\ UNCHANGED faults
    /\ UNCHANGED <<users, chat_messages, conversations, file_uploads,
                   generated_images, now, up>>
    /\ UNCHANGED <<client, mem, cli>>

\* The image analysis call returns, or throws into the file analysis catch.
VisionGenerateContent(r) ==
    /\ At(r, "vision")
    /\ \/ /\ Set(r, StartPersist([req[r] EXCEPT !.botResponse = <<Reply>>], "vision"))
          /\ UNCHANGED faults
       \/ /\ MayFail
          /\ Set(r, OnError(req[r], "model"))
    /\ UNCHANGED <<users, chat_messages, conversations, file_uploads,
                   generated_images, now, up>>
    /\ UNCHANGED <<client, mem, cli>>

\* The text call returns, or throws into the handler's catch.
GenerateContent(r) ==
    /\ At(r, "generate")
    /\ \/ /\ Set(r, StartPersist([req[r] EXCEPT !.botResponse = <<Reply>>], "plain"))
          /\ UNCHANGED faults
       \/ /\ MayFail
          /\ Set(r, OnError(req[r], "model"))
    /\ UNCHANGED <<users, chat_messages, conversations, file_uploads,
                   generated_images, now, up>>
    /\ UNCHANGED <<client, mem, cli>>

\* await database.saveChatMessage(sessionId, role, content)
SaveChatMessage(r) ==
    /\ At(r, "persist")
    /\ CurrentWrite(req[r]) \in {"user", "assistant"}
    /\ LET rec == req[r]
           role == CurrentWrite(rec)
       IN \/ /\ \E t \in CurrentTimestamp :
                  /\ chat_messages' =
                        InsertChatMessage(chat_messages, rec.sessionId, role,
                            IF role = "user" THEN UserContent(rec)
                            ELSE AssistantContent(rec), t)
                  /\ now' = t
             /\ Set(r, AfterWrite(rec))
             /\ UNCHANGED faults
          \/ /\ MayFail
             /\ Set(r, OnError(rec, "store"))
             /\ UNCHANGED <<chat_messages, now>>
    /\ UNCHANGED <<users, conversations, file_uploads, generated_images, up>>
    /\ UNCHANGED <<client, mem, cli>>

\* await database.saveConversation(sessionId, message, response)
SaveConversation(r) ==
    /\ At(r, "persist")
    /\ CurrentWrite(req[r]) = "turn"
    /\ LET rec == req[r]
       IN \/ /\ conversations' =
                   InsertConversation(conversations, rec.sessionId,
                       <<rec.message>>, AssistantContent(rec))
             /\ Set(r, AfterWrite(rec))
             /\ UNCHANGED <<now, faults>>
          \/ /\ MayFail
             /\ Set(r, OnError(rec, "store"))
             /\ UNCHANGED <<conversations, now>>
    /\ UNCHANGED <<users, chat_messages, file_uploads, generated_images, up>>
    /\ UNCHANGED <<client, mem, cli>>

\* await database.saveGeneratedImage(sessionId, prompt, imagePath)
SaveGeneratedImage(r) ==
    /\ At(r, "persist")
    /\ CurrentWrite(req[r]) = "image"
    /\ LET rec == req[r]
       IN \/ /\ generated_images' =
                   InsertGeneratedImage(generated_images, rec.sessionId,
                       rec.message, rec.imagePath)
             /\ Set(r, AfterWrite(rec))
             /\ UNCHANGED <<now, faults>>
          \/ /\ MayFail
             /\ Set(r, OnError(rec, "store"))
             /\ UNCHANGED <<generated_images, now>>
    /\ UNCHANGED <<users, chat_messages, conversations, file_uploads, up>>
    /\ UNCHANGED <<client, mem, cli>>

\* handleImageGeneration: generateImageWithHuggingFace returns, and the
\* handler downloads the image or, without a source, falls back.  The
\* request meets image.pollinations.ai answering its HEAD with 200 or not,
\* and picsum.photos up or down.
HandleImageGeneration(r) ==
    /\ At(r, "head")
    /\ \E head \in {"200", "error"}, picsum \in {"up", "down"} :
         LET url == GenerateImageWithHuggingFace(head)
             rec == [req[r] EXCEPT !.head = head, !.picsum = picsum,
                                   !.imageUrl = url]
         IN Set(r, IF url = None THEN CallDescription(rec)
                   ELSE [rec EXCEPT !.pc = "download"])
    /\ UNCHANGED <<users, chat_messages, conversations, file_uploads,
                   generated_images, now, up, faults>>
    /\ UNCHANGED <<client, mem, cli>>

\* downloadAndSaveImage returns; the handler goes on to its writes.
DownloadAndSaveImage(r) ==
    /\ At(r, "download")
    /\ \E outcome \in DownloadOutcomes(req[r].imageUrl, req[r].picsum) :
         Set(r, StartPersist([req[r] EXCEPT
                                 !.imagePath = DownloadAndSaveImageResult(outcome)],
                             "image"))
    /\ UNCHANGED <<users, chat_messages, conversations, file_uploads,
                   generated_images, now, up, faults>>
    /\ UNCHANGED <<client, mem, cli>>

\* handleImageDescriptionFallback: its model call returns or throws.
HandleImageDescriptionFallback(r) ==
    /\ At(r, "describe")
    /\ \/ /\ Set(r, StartPersist([req[r] EXCEPT !.botResponse = <<Reply>>], "fallback"))
          /\ UNCHANGED faults
       \/ /\ MayFail
          /\ Set(r, OnError(req[r], "model"))
    /\ UNCHANGED <<users, chat_messages, conversations, file_uploads,
                   generated_images, now, up>>
    /\ UNCHANGED <<client, mem, cli>>

\* await database.saveFileUpload(...), then the answer.
SaveFileUpload(r) ==
    /\ At(r, "saveFile")
    /\ LET rec == req[r]
       IN \/ /\ file_uploads' = InsertFileUpload(file_uploads, rec.sessionId, rec.file)
             /\ Set(r, Respond([rec EXCEPT !.writes = Append(@, "file")], 200, "upload"))
             /\ UNCHANGED <<now, faults>>
          \/ /\ MayFail
             /\ Set(r, OnError(rec, "store"))
             /\ UNCHANGED <<file_uploads, now>>
    /\ UNCHANGED <<users, chat_messages, conversations, generated_images, up>>
    /\ UNCHANGED <<client, mem, cli>>

\* clearSessionHistory, DELETE FROM chat_messages.  db.serialize holds the
\* second DELETE back until this one and every statement issued meanwhile
\* are done; statements of other handlers are not held back.
ClearSessionHistoryMessages(r) ==
    /\ At(r, "clear")
    /\ LET rec == req[r]
       IN \/ \* this.changes of the statement: the rows it deleted
             /\ chat_messages' = DeleteWhere(chat_messages, rec.sessionId)
             /\ Set(r, [rec EXCEPT !.pc = "clearTurns",
                                   !.changes = Len(RowsOf(chat_messages, rec.sessionId))])
             /\ UNCHANGED <<up, faults>>
          \/ \* the statement has no callback: its error event has no
             \* listener and ends the process
             /\ MayFail
             /\ up' = FALSE
             /\ UNCHANGED <<chat_messages, req>>
    /\ UNCHANGED <<users, conversations, file_uploads, generated_images, now>>
    /\ UNCHANGED <<client, mem, cli>>

\* clearSessionHistory, DELETE FROM conversations, and the answer of
\* POST /api/clear: deletedRows is this.changes of this statement.
ClearSessionHistoryConversations(r) ==
    /\ At(r, "clearTurns")
    /\ LET rec == req[r]
           s == rec.sessionId
       IN \/ /\ conversations' = DeleteWhere(conversations, s)
             /\ Set(r, Respond([rec EXCEPT !.deletedRows = Len(RowsOf(conversations, s))],
                               200, "cleared"))
             /\ UNCHANGED faults
          \/ /\ MayFail
             /\ Set(r, Respond(rec, 500, "clearError"))
             /\ UNCHANGED conversations
    /\ UNCHANGED <<users, chat_messages, file_uploads, generated_images, now, up>>
    /\ UNCHANGED <<client, mem, cli>>

\* GET /api/export/:sessionId up to its first await.  The session id is a
\* part of the path: the route is not reached without one.
ReceiveExport(r) ==
    /\ Arrives(r)
    /\ \E s \in Sessions :
         Set(r, [req[r] EXCEPT !.kind = "export", !.sessionId = s,
                               !.pc = "exportHistory"])
    /\ UNCHANGED <<users, chat_messages, conversations, file_uploads,
                   generated_images, now, up, faults>>
    /\ UNCHANGED <<client, mem, cli>>

\* const history = await database.getConversationHistory(sessionId, 1000)
ExportHistory(r) ==
    /\ At(r, "exportHistory")
    /\ LET rec == req[r]
       IN \/ /\ \E h \in GetConversationHistory(chat_messages, rec.sessionId, ExportLimit) :
                   Set(r, [rec EXCEPT !.pc = "exportFiles", !.history = h])
             /\ UNCHANGED faults
          \/ /\ MayFail
             /\ Set(r, Respond(rec, 500, "exportError"))
    /\ UNCHANGED <<users, chat_messages, conversations, file_uploads,
                   generated_images, now, up>>
    /\ UNCHANGED <<client, mem, cli>>

\* const files = await database.getSessionFiles(sessionId), then the answer.
ExportFiles(r) ==
    /\ At(r, "exportFiles")
    /\ LET rec == req[r]
       IN \/ /\ Set(r, ExportData(rec, GetSessionFiles(file_uploads, rec.sessionId)))
             /\ UNCHANGED faults
          \/ /\ MayFail
             /\ Set(r, Respond(rec, 500, "exportError"))
    /\ UNCHANGED <<users, chat_messages, conversations, file_uploads,
                   generated_images, now, up>>
    /\ UNCHANGED <<client, mem, cli>>

Next ==
    \E r \in Reqs :
        \/ ReceiveChat(r)
        \/ ReceiveUpload(r)
        \/ ReceiveClear(r)
        \/ CreateOrGetUserLookup(r)
        \/ CreateOrGetUserInsert(r)
        \/ LoadHistory(r)
        \/ VisionGenerateContent(r)
        \/ GenerateContent(r)
        \/ SaveChatMessage(r)
        \/ SaveConversation(r)
        \/ SaveGeneratedImage(r)
        \/ HandleImageGeneration(r)
        \/ DownloadAndSaveImage(r)
        \/ HandleImageDescriptionFallback(r)
        \/ SaveFileUpload(r)
        \/ ClearSessionHistoryMessages(r)
        \/ ClearSessionHistoryConversations(r)
        \/ ReceiveExport(r)
        \/ ExportHistory(r)
        \/ ExportFiles(r)

Spec == Init /\ [][Next]_vars

SpecStored == InitStored /\ [][Next]_vars

\* The steps of a handler after the request was received: the callback of
\* the statement or of the call it awaits.
Continue(r) ==
    \/ CreateOrGetUserLookup(r)
    \/ CreateOrGetUserInsert(r)
    \/ LoadHistory(r)
    \/ VisionGenerateContent(r)
    \/ GenerateContent(r)
    \/ SaveChatMessage(r)
    \/ SaveConversation(r)
    \/ SaveGeneratedImage(r)
    \/ HandleImageGeneration(r)
    \/ DownloadAndSaveImage(r)
    \/ HandleImageDescriptionFallback(r)
    \/ SaveFileUpload(r)
    \/ ClearSessionHistoryMessages(r)
    \/ ClearSessionHistoryConversations(r)
    \/ ExportHistory(r)
    \/ ExportFiles(r)

\* The server with every awaited statement and call coming back, with its
\* result or with its error: the event loop runs each callback that is due.
SpecFair == Init /\ [][Next]_vars /\ \A r \in Reqs : WF_vars(Continue(r))

\* ---------------------------------------------------- client actions
\* The page of public/script.js, the server seen through its answers.
server == <<users, chat_messages, conversations, file_uploads,
            generated_images, now, up, faults, req>>

\* toggleImageGeneration()
ToggleImageGeneration ==
    /\ client' = [client EXCEPT !.imageGenerationMode = ~@]
    /\ UNCHANGED <<server, mem, cli>>

\* sendMessage() up to await fetch('/api/chat'); the Enter key calls it
\* whether or not an earlier send is still awaited.
SendMessage ==
    /\ Len(client.sends) < MaxSends
    /\ client' = [client EXCEPT !.sends =
                      Append(@, [body |-> RequestBody(client), state |-> "sent"])]
    /\ UNCHANGED <<server, mem, cli>>

\* sendMessage() after the fetch: response.ok, or the catch block.
SendMessageAnswered ==
    /\ \E i \in DOMAIN client.sends, ok \in BOOLEAN :
         /\ client.sends[i].state = "sent"
         /\ client' = [client EXCEPT
                !.sends[i].state = IF ok THEN "ok" ELSE "error",
                !.chatSessions = IF ok THEN SaveChatSession(client, i) ELSE @,
                !.imageGenerationMode = IF ok /\ @ THEN ~@ ELSE @]
    /\ UNCHANGED <<server, mem, cli>>

\* handleFileUpload(event) up to await fetch('/api/upload').
HandleFileUpload ==
    /\ Len(client.uploads) < MaxUploads
    /\ \E file \in UploadFiles :
         IF HandleFileUploadSends(file)
             THEN client' = [client EXCEPT !.uploads =
                                Append(@, [file |-> file, state |-> "sent"])]
             ELSE UNCHANGED client
    /\ UNCHANGED <<server, mem, cli>>

\* handleFileUpload(event) after the fetch: response.ok && data.success, or
\* the catch block.  The server never accepts a file multer refuses.
HandleFileUploadAnswered ==
    /\ \E i \in DOMAIN client.uploads :
         /\ client.uploads[i].state = "sent"
         /\ \E ok \in (IF MulterRefuses(client.uploads[i].file)
                          THEN {FALSE} ELSE BOOLEAN) :
              client' = [client EXCEPT
                  !.uploads[i].state = IF ok THEN "ok" ELSE "error",
                  !.uploadedFiles = IF ok THEN Append(@, UploadUrl(i)) ELSE @]
    /\ UNCHANGED <<server, mem, cli>>

\* removeFile(index)
RemoveFile ==
    /\ \E index \in DOMAIN client.uploadedFiles :
         client' = [client EXCEPT !.uploadedFiles = Splice(@, index)]
    /\ UNCHANGED <<server, mem, cli>>

\* startNewChat()
StartNewChat ==
    /\ \E s \in ClientSessions :
         client' = [client EXCEPT !.currentSessionId = s, !.uploadedFiles = <<>>]
    /\ UNCHANGED <<server, mem, cli>>

\* loadChatSession(sessionId), from a click on an entry of the history list.
LoadChatSession ==
    /\ \E s \in ClientSessions :
         /\ client.chatSessions[s] # <<>>
         /\ client' = [client EXCEPT !.currentSessionId = s]
    /\ UNCHANGED <<server, mem, cli>>

\* clearCurrentChat() up to await fetch('/api/clear').
ClearCurrentChat ==
    /\ client.clears < MaxClears
    /\ client' = [client EXCEPT !.clears = @ + 1, !.clearing = @ + 1]
    /\ UNCHANGED <<server, mem, cli>>

\* clearCurrentChat() after the fetch: whatever the status of the answer,
\* the entry of this.currentSessionId is deleted and startNewChat() runs;
\* a fetch that failed goes to the catch block.
ClearCurrentChatAnswered ==
    /\ client.clearing > 0
    /\ \/ \E s \in ClientSessions :
            client' = [client EXCEPT !.clearing = @ - 1,
                                     !.chatSessions[client.currentSessionId] = <<>>,
                                     !.currentSessionId = s,
                                     !.uploadedFiles = <<>>]
       \/ client' = [client EXCEPT !.clearing = @ - 1]
    /\ UNCHANGED <<server, mem, cli>>

NextClient ==
    \/ ToggleImageGeneration
    \/ SendMessage
    \/ SendMessageAnswered
    \/ HandleFileUpload
    \/ HandleFileUploadAnswered
    \/ RemoveFile
    \/ StartNewChat
    \/ LoadChatSession
    \/ ClearCurrentChat
    \/ ClearCurrentChatAnswered

SpecClient == Init /\ [][NextClient]_vars

\* ------------------------------------- in-memory revision's actions
\* The bodies of POST /api/chat.
MemoryBodies ==
    {[message |-> m, sessionId |-> s] :
        m \in Messages \cup {None}, s \in {None, "s1"}}

\* POST /api/chat of the in-memory revision up to its await: the test of
\* the message, the history got or created, the model call issued.
MemoryReceiveChat ==
    /\ Len(mem.reqs) < MaxMemoryRequests
    /\ \E body \in MemoryBodies :
         LET s == IF body.sessionId = None THEN "default" ELSE body.sessionId
             has == mem.conversations[s] # 0
             ref == IF has THEN mem.conversations[s] ELSE Len(mem.arrays) + 1
         IN IF body.message = None
            THEN mem' = [mem EXCEPT !.reqs = Append(@,
                            [pc |-> "done", sessionId |-> s, message |-> None,
                             ref |-> 0, status |-> 400])]
            ELSE mem' = [mem EXCEPT
                            !.conversations[s] = ref,
                            !.arrays = IF has THEN @ ELSE Append(@, <<>>),
                            !.reqs = Append(@,
                                [pc |-> "generate", sessionId |-> s,
                                 message |-> body.message,
                                 ref |-> ref, status |-> 0])]
    /\ UNCHANGED <<server, client, cli>>

\* The model call returns: the exchange is pushed onto the array the
\* handler holds, the array is cut to its limit and the reply is sent; or
\* the call throws and the catch answers 500.
MemoryGenerateContent ==
    /\ \E i \in DOMAIN mem.reqs :
         /\ mem.reqs[i].pc = "generate"
         /\ LET rec == mem.reqs[i]
            IN \/ mem' = [mem EXCEPT
                      !.arrays[rec.ref] =
                          KeepLast(@ \o Exchange(rec.message, i), MemoryLimit),
                      !.reqs[i].pc = "done", !.reqs[i].status = 200]
               \/ mem' = [mem EXCEPT !.reqs[i].pc = "done", !.reqs[i].status = 500]
    /\ UNCHANGED <<server, client, cli>>

\* POST /api/clear of the in-memory revision: conversations.delete(sessionId).
MemoryClear ==
    /\ \E s \in MemorySessions :
         mem' = [mem EXCEPT !.conversations[s] = 0]
    /\ UNCHANGED <<server, client, cli>>

NextMemory ==
    \/ MemoryReceiveChat
    \/ MemoryGenerateContent
    \/ MemoryClear

SpecMemory == InitMemory /\ [][NextMemory]_vars

\* ------------------------------------- command-line chatbot's actions
\* The callback of rl.question up to its await or its return.
Question ==
    /\ cli.pc = "question"
    /\ cli.inputs < MaxInputs
    /\ \E input \in Inputs :
         LET userInput == Trim(input)
             read == [cli EXCEPT !.input = input, !.inputs = @ + 1]
         IN IF ToLowerCase(userInput) = "quit" \/ ToLowerCase(userInput) = "exit"
            THEN cli' = [read EXCEPT !.pc = "closed"]
            ELSE IF userInput = ""
            THEN cli' = read
            ELSE cli' = [read EXCEPT
                            !.pc = "chat", !.calls = @ + 1,
                            !.conversationHistory =
                                Append(@, [role |-> "user", content |-> <<userInput>>])]
    /\ UNCHANGED <<server, client, mem>>

\* chat(userMessage) after its await: the reply is pushed, or the catch
\* returns its apology; then askQuestion().
ChatAnswered ==
    /\ cli.pc = "chat"
    /\ \/ cli' = [cli EXCEPT
                     !.pc = "question",
                     !.conversationHistory =
                         Append(@, [role |-> "assistant", content |-> <<Reply>>])]
       \/ cli' = [cli EXCEPT !.pc = "question"]
    /\ UNCHANGED <<server, client, mem>>

NextCli ==
    \/ Question
    \/ ChatAnswered

SpecCli == Init /\ [][NextCli]_vars

\* -------------------------------------------------------- properties
\* The request other than r.
Others(r) == Reqs \ {r}

\* The rows of a table that belong to the other sessions.
RowsOfOthers(table, s) == SelectSeq(table, LAMBDA row : row.session_id # s)

InTimeOrder(h) == \A i \in 1..(Len(h) - 1) : h[i].timestamp <= h[i + 1].timestamp

\* C1: whatever the store holds when a handler calls getConversationHistory
\* for its session, the result holds rows of that session only, in
\* non-decreasing timestamp order.
C1_HistoryOfSessionInTimeOrder ==
    \A r \in Reqs :
        req[r].pc \in {"generate", "vision"} =>
            /\ \A i \in 1..Len(req[r].history) :
                  req[r].history[i].session_id = req[r].sessionId
            /\ InTimeOrder(req[r].history)

\* A request has loaded a history of rows written in different seconds
\* while the store holds rows of another session.
C1_Witness ==
    \E r \in Reqs :
        /\ req[r].pc = "generate"
        /\ Len(req[r].history) >= 2
        /\ req[r].history[1].timestamp < req[r].history[Len(req[r].history)].timestamp
        /\ \E i \in DOMAIN chat_messages :
              chat_messages[i].session_id # req[r].sessionId

UserTurns(prompt) ==
    Cardinality({i \in DOMAIN prompt : prompt[i].kind \in {"User", "Analyze"}})

\* C3: a prompt handed to the model by POST /api/chat for a session without
\* stored messages has exactly one user turn, with or without a file
\* reference.
C3_OneUserTurnWithoutHistory ==
    \A r \in Reqs :
        (req[r].pc \in {"generate", "vision"} /\ req[r].history = <<>>) =>
            UserTurns(req[r].asked) = 1

\* The newest n rows of a session, for each order the store may list rows
\* of one second in.
NewestRows(table, s, n) ==
    {SubSeq(o, Len(o) - Min2(n, Len(o)) + 1, Len(o)) :
        o \in OrderByTimestamp(table, {i \in DOMAIN table : table[i].session_id = s})}

\* C4: the history POST /api/chat builds its prompt from is the newest
\* HistoryLimit messages of the session: with more than that stored, the
\* ten newest and none of the older ones.
C4_HistoryIsNewest ==
    [][\A r \in Reqs :
          (req[r].pc = "history" /\ req'[r].pc \in {"generate", "vision"}) =>
              req'[r].history \in NewestRows(chat_messages, req[r].sessionId, HistoryLimit)]_vars

\* C5: an image request that meets both remote services unreachable goes on
\* from downloadAndSaveImage with the path of a written local placeholder
\* image, the path it stores in generated_images and answers with.
C5_PlaceholderWhenRemoteUnreachable ==
    [][\A r \in Reqs :
          (/\ req[r].pc = "download"
           /\ req[r].head = "error" /\ req[r].picsum = "down"
           /\ req'[r].pc = "persist") => req'[r].imagePath # None]_vars

\* C6: the chain returns the first source when its HEAD gave 200, the second
\* when the first failed and the second is up, and the local image when
\* both remote sources fail.
C6_ChainOrder ==
    \A r \in Reqs :
        req[r].pc = "download" =>
            req[r].imageUrl =
                IF req[r].head = "200" THEN PollinationsUrl
                ELSE IF req[r].picsum = "up" THEN PicsumUrl
                ELSE GenerateLocalPlaceholderImage

\* C7: an image request is answered with an image link only when it has an
\* image file to link to; without one the answer is the description.
C7_NoImageNoLink ==
    \A r \in Reqs :
        (req[r].pc = "done" /\ req[r].respKind = "image") => req[r].respImage # None

\* The first line of the assistant row behind each kind of answer to an
\* image request.
OutcomeLine(respKind) ==
    IF respKind = "image" THEN "Generated image:"
    ELSE "Image Generation (Description Mode)"

\* C8: when an image request is answered with its outcome, a generated image
\* or the description, the last three writes it made are the user row, the
\* assistant row and the turn; unless the other request is a clear of the
\* session, the store holds the user row, after it the assistant row of the
\* outcome, and the turn.
C8_ImageOutcomePersisted ==
    \A r \in Reqs :
        (/\ req[r].pc = "done" /\ req[r].generateImage
         /\ req[r].respKind \in {"image", "description"}) =>
            LET w == req[r].writes
                n == Len(w)
                s == req[r].sessionId
                line == OutcomeLine(req[r].respKind)
            IN /\ n >= 3
               /\ SubSeq(w, n - 2, n) = <<"user", "assistant", "turn">>
               /\ (\A q \in Others(r) : ~(req[q].kind = "clear" /\ req[q].sessionId = s)) =>
                     /\ \E i, j \in DOMAIN chat_messages :
                           /\ i < j
                           /\ chat_messages[i].session_id = s
                           /\ chat_messages[i].role = "user"
                           /\ chat_messages[i].content[1] = "[Image Generation]"
                           /\ chat_messages[j].session_id = s
                           /\ chat_messages[j].role = "assistant"
                           /\ chat_messages[j].content[1] = line
                     /\ \E k \in DOMAIN conversations :
                           /\ conversations[k].session_id = s
                           /\ conversations[k].response[1] = line

\* One image request has been answered with an image and another, after a
\* write of its image path failed, with the description.
C8_Witness ==
    \E r, q \in Reqs :
        /\ req[r].pc = "done" /\ req[r].generateImage /\ req[r].respKind = "image"
        /\ req[q].pc = "done" /\ req[q].generateImage /\ req[q].respKind = "description"
        /\ Len(req[q].writes) > 3

\* C9: in the writes a request has made, in every interleaving with the
\* other request, an assistant row comes right after the user row, and a
\* turn right after the two; the write a request waits for next follows
\* the same order.
C9_WritesInOrder ==
    \A r \in Reqs :
        LET w == IF req[r].pc = "persist"
                 THEN Append(req[r].writes, CurrentWrite(req[r]))
                 ELSE req[r].writes
        IN \A i \in DOMAIN w :
              /\ w[i] = "assistant" => (i > 1 /\ w[i - 1] = "user")
              /\ w[i] = "turn" =>
                    (i > 2 /\ w[i - 1] = "assistant" /\ w[i - 2] = "user")

\* Both requests have written their rows and their turn, and their message
\* rows alternate in the store.
C9_Witness ==
    /\ \A r \in Reqs :
          /\ Len(req[r].writes) >= 3
          /\ req[r].writes[Len(req[r].writes)] = "turn"
    /\ \E i \in DOMAIN chat_messages :
          /\ i + 2 \in DOMAIN chat_messages
          /\ chat_messages[i].session_id # chat_messages[i + 1].session_id
          /\ chat_messages[i + 2].session_id = chat_messages[i].session_id

\* The session ids of the rows of a table.
SessionIds(table) == {table[i].session_id : i \in DOMAIN table}

\* C10: every row of chat_messages, conversations, file_uploads and
\* generated_images carries a session id that has a users row; users rows
\* are made by createOrGetUser only and are never removed, so the users row
\* was there when the row was inserted.
C10_RowsHaveUsers ==
    /\ SessionIds(chat_messages) \subseteq SessionIds(users)
    /\ SessionIds(conversations) \subseteq SessionIds(users)
    /\ SessionIds(file_uploads) \subseteq SessionIds(users)
    /\ SessionIds(generated_images) \subseteq SessionIds(users)

\* All four tables hold rows, some of a session the server named itself.
C10_Witness ==
    /\ chat_messages # <<>> /\ conversations # <<>>
    /\ file_uploads # <<>> /\ generated_images # <<>>
    /\ \E r \in Reqs : UuidV4(r) \in SessionIds(file_uploads)

\* C11: a send-message request whose model call has succeeded and that is
\* waiting for a store write is answered with the reply, status 200, also
\* when the write fails.
C11_ReplyReturnedWhenWriteFails ==
    [][\A r \in Reqs :
          (/\ req[r].pc = "persist" /\ req[r].path \in {"plain", "vision"}
           /\ req'[r].pc = "done") =>
              (req'[r].status = 200 /\ req'[r].respKind = "chat")]_vars

\* C12: when the model call of a send-message request without file
\* reference and image flag fails, the request is answered with status 500
\* and the generic error; the request has written no row, and the step adds
\* no row to chat_messages or conversations.
C12_ModelFailureAnswers500 ==
    [][\A r \in Reqs :
          (/\ req[r].pc = "generate" /\ req[r].fileUrl = None
           /\ req'[r].pc = "done") =>
              /\ req'[r].status = 500 /\ req'[r].respKind = "error"
              /\ req'[r].writes = <<>>
              /\ chat_messages' = chat_messages
              /\ conversations' = conversations]_vars

\* A send-message request has been answered with 500 and the model's error
\* while the store holds no message and no turn of its session.
C12_Witness ==
    \E r \in Reqs :
        /\ req[r].kind = "chat" /\ ~req[r].generateImage
        /\ req[r].pc = "done" /\ req[r].status = 500
        /\ req[r].details = "model" /\ req[r].writes = <<>>
        /\ RowsOf(chat_messages, req[r].sessionId) = <<>>
        /\ RowsOf(conversations, req[r].sessionId) = <<>>

\* A request as received lacks its required input: the message of a send,
\* the session id of a clear, the file of an upload.
MissingInput(rec) ==
    \/ rec.kind = "chat" /\ rec.message = None
    \/ rec.kind = "clear" /\ rec.sessionId = None
    \/ rec.kind = "upload" /\ rec.file = NoFile

\* C13: a request received without its required input is answered at once
\* with status 400 and its error, and no table of the store changes.
C13_MissingInputAnswers400 ==
    [][\A r \in Reqs :
          (req[r].pc = "idle" /\ req'[r].pc # "idle" /\ MissingInput(req'[r])) =>
              /\ req'[r].pc = "done"
              /\ req'[r].status = 400 /\ req'[r].respKind = "error"
              /\ UNCHANGED <<users, chat_messages, conversations,
                             file_uploads, generated_images>>]_vars

\* A send without a message and a clear without a session id have both been
\* answered with 400, and no users row exists.
C13_Witness ==
    \E r, q \in Reqs :
        /\ req[r].kind = "chat" /\ req[r].pc = "done" /\ req[r].status = 400
        /\ req[q].kind = "clear" /\ req[q].pc = "done" /\ req[q].status = 400
        /\ users = <<>>

\* C14: an upload of a file over 10 MB is refused: no step of its request
\* changes file_uploads or users, its answer is an error, and no
\* file_uploads row ever has such a size; the client does not send such a
\* file at all.
C14_LargeUploadRefused ==
    [][/\ \A r \in Reqs :
            (/\ req'[r] # req[r] /\ req'[r].kind = "upload"
             /\ req'[r].file.size > FileSizeLimit) =>
                /\ req'[r].pc = "done" /\ req'[r].status = 500
                /\ req'[r].writes = <<>>
                /\ file_uploads' = file_uploads /\ users' = users
                /\ ~HandleFileUploadSends(req'[r].file)
       /\ \A i \in DOMAIN file_uploads' : file_uploads'[i].file_size <= FileSizeLimit]_vars

\* An upload of a file over 10 MB has been answered while the store holds
\* the row of another upload.
C14_Witness ==
    \E r \in Reqs :
        /\ req[r].kind = "upload" /\ req[r].pc = "done"
        /\ req[r].file.size > FileSizeLimit
        /\ file_uploads # <<>>

\* The kinds the allow-list is meant to cover, as pairs of extension and
\* mime type: images and plain text among the files of the model.
CoveredKinds == {<<".png", "image/png">>, <<".txt", "text/plain">>}

\* C15: an upload within the size limit is let through by the allow-list
\* exactly when its extension and its mime type are of a covered kind.
C15_AllowListFollowsKinds ==
    \A r \in Reqs :
        (/\ req[r].kind = "upload" /\ req[r].pc = "done"
         /\ req[r].file # NoFile /\ req[r].file.size <= FileSizeLimit) =>
            (req[r].respKind # "multerError" <=>
                <<ExtName(req[r].file.name), req[r].file.mimetype>> \in CoveredKinds)

\* C16: an export of a session with no stored turn is answered with an
\* empty conversations list, and every export that no failing statement
\* cut short is answered 200 with messageCount equal to the length of the
\* conversations list, 0 for a session without turns.
C16_ExportOfSessionWithoutTurns ==
    [][\A r \in Reqs :
          /\ (/\ req[r].pc = "exportHistory" /\ req'[r].pc = "exportFiles"
              /\ RowsOf(conversations, req[r].sessionId) = <<>>) =>
                  req'[r].history = <<>>
          /\ (/\ req[r].pc = "exportFiles" /\ req'[r].pc = "done"
              /\ faults' = faults) =>
                  /\ req'[r].status = 200
                  /\ req'[r].messageCount = Len(req'[r].history)]_vars

\* C17: a send of the page carries generateImage = true exactly when the
\* image-generation mode is on as it is sent, and when a send so tagged has
\* been answered, with success or with an error, the mode is off.
C17_ImageModeResetsAfterOneSend ==
    [][\A i \in DOMAIN client'.sends :
          IF i \notin DOMAIN client.sends
              THEN client'.sends[i].body.generateImage = client.imageGenerationMode
              ELSE (/\ client.sends[i].state = "sent"
                    /\ client'.sends[i].state # "sent"
                    /\ client.sends[i].body.generateImage) =>
                        ~client'.imageGenerationMode]_vars

\* C18: the page holds at most one pending upload, and no uploaded file is
\* attached to more than one send.
C18_OnePendingUpload ==
    /\ Len(client.uploadedFiles) <= 1
    /\ \A i, j \in DOMAIN client.sends :
          (i # j /\ client.sends[i].body.fileUrl # None) =>
              client.sends[i].body.fileUrl # client.sends[j].body.fileUrl

\* C19: a users row is made only by createOrGetUser for a send-message or
\* upload request that has passed validation, for the session that request
\* names; no row is removed; and no two users rows carry the same session id.
C19_SessionsMadeLazilyAndOnce ==
    [][/\ users' # users =>
            \E r \in Reqs :
                /\ req[r].pc = "insertUser"
                /\ req[r].kind \in {"chat", "upload"}
                /\ ~MissingInput(req[r])
                /\ req[r].kind = "upload" => ~MulterRefuses(req[r].file)
                /\ ~HasUser(users, req[r].sessionId)
                /\ users' = Append(users, [session_id |-> req[r].sessionId])
       /\ \A i, j \in DOMAIN users' :
            users'[i].session_id = users'[j].session_id => i = j]_vars

\* Two requests made the first use of one session at the same time: one
\* row was stored and, no statement having failed otherwise, the second
\* INSERT was refused.
C19_Witness ==
    /\ faults = 0
    /\ Len(users) = 1
    /\ \E r, q \in Reqs :
          /\ r # q
          /\ req[r].sessionId = req[q].sessionId
          /\ req[r].pc = "done" /\ req[r].status = 500 /\ req[r].details = "store"
          /\ req[q].pc = "done" /\ req[q].status = 200

\* A text prompt made of the preamble, the rows of history in their order,
\* each as one line of its role, an optional file text, the turn of the
\* user with message, and the cue.
PromptOfHistory(asked, history, message) ==
    LET n == Len(history)
        m == Len(asked)
    IN /\ n <= HistoryLimit
       /\ InTimeOrder(history)
       /\ m >= n + 3
       /\ asked[1] = Preamble
       /\ \A i \in 1..n :
            asked[i + 1] = Part(IF history[i].role = "user" THEN "User" ELSE "Assistant",
                                history[i].content)
       /\ \A i \in (n + 2)..(m - 2) : asked[i].kind = "File"
       /\ asked[m - 1].kind = "User" /\ asked[m - 1].content[1] = message
       /\ asked[m] = Cue

\* C20: the text prompt POST /api/chat assembles is the preamble, then the
\* at most 10 stored messages of the session it read, each rendered once by
\* its role and in the order of their timestamps, then the new turn of the
\* user as the last turn, then the "Assistant:" cue.
C20_PromptIsPreambleHistoryTurnCue ==
    [][\A r \in Reqs :
          (req[r].pc = "history" /\ req'[r].pc = "generate") =>
              /\ \A i \in DOMAIN req'[r].history :
                    \E j \in DOMAIN chat_messages :
                        /\ chat_messages[j] = req'[r].history[i]
                        /\ chat_messages[j].session_id = req[r].sessionId
              /\ PromptOfHistory(req'[r].asked, req'[r].history, req[r].message)]_vars

\* The writes of one kind in the record of what a request wrote.
CountWrites(writes, kind) ==
    Cardinality({i \in DOMAIN writes : writes[i] = kind})

\* C21: a send-message request stores at most one user row, at most one
\* assistant row and at most one turn, whatever fails on its way.
C21_AtMostOneRowOfEachKind ==
    \A r \in Reqs :
        req[r].kind = "chat" =>
            /\ CountWrites(req[r].writes, "user") <= 1
            /\ CountWrites(req[r].writes, "assistant") <= 1
            /\ CountWrites(req[r].writes, "turn") <= 1

\* The rows alternate user, assistant, user, ... from a user row on.
Alternates(rows) ==
    \A i \in DOMAIN rows :
        rows[i].role = IF i % 2 = 1 THEN "user" ELSE "assistant"

\* C22: while no statement and no model call has failed and no session has
\* been cleared, the messages of every session alternate user, assistant in
\* the order of their insertion, however the send-message requests on the
\* session interleave.
C22_MessagesAlternate ==
    (faults = 0 /\ \A r \in Reqs : req[r].kind # "clear") =>
        \A s \in SessionIds(chat_messages) : Alternates(RowsOf(chat_messages, s))

\* No request is between its arrival and its answer.
Quiescent == \A r \in Reqs : req[r].pc \in {"idle", "done"}

\* The rows of a role a session has in chat_messages.
CountRole(s, role) ==
    Len(SelectSeq(chat_messages,
                  LAMBDA row : row.session_id = s /\ row.role = role))

\* C23: when no request is in flight, every session has as many turns as
\* user rows and as many user rows as assistant rows.
C23_TurnsMatchMessages ==
    Quiescent =>
        \A s \in SessionIds(chat_messages) \cup SessionIds(conversations) :
            /\ Len(RowsOf(conversations, s)) = CountRole(s, "user")
            /\ CountRole(s, "user") = CountRole(s, "assistant")

\* The message rows and turns a request has stored.
ExchangeWrites(rec) ==
    CountWrites(rec.writes, "user") + CountWrites(rec.writes, "assistant")
        + CountWrites(rec.writes, "turn")

\* C24: once POST /api/clear has answered for a session, a send-message
\* request on that session that arrived before the clear stores no further
\* message row and no turn.
C24_NoWriteOfEarlierSendAfterClear ==
    [][\A r, q \in Reqs :
          (/\ q < r
           /\ req[r].kind = "clear" /\ req[r].pc = "done"
           /\ req[r].respKind = "cleared"
           /\ req[q].kind = "chat"
           /\ req[q].sessionId = req[r].sessionId) =>
               ExchangeWrites(req'[q]) = ExchangeWrites(req[q])]_vars

\* C25: every exchange the page has cached lies in the entry of the session
\* id its request was sent with.
C25_ExchangeCachedUnderItsSession ==
    \A s \in ClientSessions :
        \A k \in DOMAIN client.chatSessions[s] :
            client.sends[client.chatSessions[s][k]].body.sessionId = s

\* C26: the INSERT of createOrGetUser, when the statement itself does not
\* fail for another reason, never ends a request with a 500: of two
\* requests that make the first use of one session id, both go on.
C26_CreateOrGetUserSucceedsForBoth ==
    [][\A r \in Reqs :
          (/\ req[r].pc = "insertUser" /\ req'[r].pc # "insertUser"
           /\ faults' = faults) =>
               ~(req'[r].pc = "done" /\ req'[r].status = 500)]_vars

\* C27: every send-message request that was received is answered, and an
\* answer once given is the only one: the answered request takes no
\* further step.
C27_EveryRequestAnswered ==
    /\ \A r \in Reqs : (req[r].kind = "chat") ~> (req[r].pc = "done")
    /\ [][\A r \in Reqs : req[r].pc = "done" => req'[r] = req[r]]_vars

\* The last n entries of a list, all of it when it has no more.
MostRecent(list, n) ==
    IF Len(list) <= n THEN list ELSE SubSeq(list, Len(list) - n + 1, Len(list))

\* C28: in the in-memory revision, a send-message request that completes
\* leaves in the history it wrote to the at most 20 most recent messages, in
\* their order and ending with its own exchange, and no history of the Map
\* ever holds more than 20 messages.
C28_HistoryKeepsLast20 ==
    [][/\ \A i \in DOMAIN mem.reqs :
            (mem.reqs[i].pc = "generate" /\ mem'.reqs[i].status = 200) =>
                LET ref == mem.reqs[i].ref
                    exchange == Exchange(mem.reqs[i].message, i)
                    after == mem'.arrays[ref]
                IN /\ Len(after) <= MemoryLimit
                   /\ after = MostRecent(mem.arrays[ref] \o exchange, MemoryLimit)
                   /\ SubSeq(after, Len(after) - 1, Len(after)) = exchange
       /\ \A s \in MemorySessions :
            mem'.conversations[s] # 0 =>
                Len(mem'.arrays[mem'.conversations[s]]) <= MemoryLimit]_vars

\* A request has completed on the history of 'default' while it is the
\* entry of the Map, and the history was cut: it holds 20 messages and no
\* longer begins with the first message it had.
C28_Witness ==
    \E i \in DOMAIN mem.reqs :
        /\ mem.reqs[i].pc = "done" /\ mem.reqs[i].status = 200
        /\ mem.conversations["default"] = mem.reqs[i].ref
        /\ LET history == mem.arrays[mem.reqs[i].ref]
           IN /\ Len(history) = MemoryLimit
              /\ history[1] # OldExchange(1)[1]
              /\ history[MemoryLimit].content = <<Reply, i>>

\* C30: the conversationHistory of the command-line chatbot alternates
\* user and assistant entries from a user entry on; an empty line and
\* quit/exit call no model and leave the history as it is; and after
\* quit/exit no further line is read.
C30_CliHistoryAlternates ==
    [][/\ Alternates(cli'.conversationHistory)
       /\ (cli'.inputs # cli.inputs
              /\ ToLowerCase(Trim(cli'.input)) \in {"", "quit", "exit"}) =>
                /\ cli'.calls = cli.calls
                /\ cli'.conversationHistory = cli.conversationHistory
                /\ ToLowerCase(Trim(cli'.input)) # "" => cli'.pc = "closed"
       /\ cli.pc = "closed" => cli' = cli]_vars

\* C29: the deletedRows of an answered clear is the number of rows its two
\* deletes removed, messages and turns together, and a clear answers 200
\* only after both deletes succeeded.
C29_DeletedRowsCountsAllRows ==
    [][\A r \in Reqs :
          (/\ req[r].kind = "clear" /\ req[r].pc # "done"
           /\ req'[r].pc = "done" /\ req'[r].status = 200) =>
               /\ req[r].pc = "clearTurns"
               /\ conversations' = DeleteWhere(conversations, req[r].sessionId)
               /\ req'[r].deletedRows =
                      req[r].changes + Len(RowsOf(conversations, req[r].sessionId))]_vars

====
